---- MODULE Spec2Model ----
(***************************************************************************)
(* The in-memory betting ledger of api/router.go: the store (games, bets,  *)
(* wallets, bet-id counter) behind one mutex, its four operations          *)
(* listGames, getGame, placeBet and settle, and the float64 arithmetic of  *)
(* the payout and of the odds.                                             *)
(*                                                                         *)
(* Spec     runs the operations one whole call at a time.                  *)
(* SpecConc runs them from several request threads, statement by           *)
(*          statement, with the mutex between them.                        *)
(* SpecElm  runs the update function of the Elm frontend on the messages   *)
(*          of its user and of its HTTP responses.                         *)
(***************************************************************************)
EXTENDS Integers, Sequences, FiniteSets, TLC

VARIABLES store, last, debits, mu, th, lin, build, model, net

\* The frontend: its build, its Elm Model, its HTTP requests in flight.
elm == <<build, model, net>>

vars == <<store, last, debits, mu, th, lin, elm>>

(***************************************************************************)
(* Bounds of the model.                                                    *)
(***************************************************************************)
\* placeBet calls the sequential specification lets past the checks of
\* lines 138-154 (the calls that reach the debit of line 156).
MaxDebits == 2
\* Request threads of the concurrent specification, one call each.
NThreads == 2
\* HTTP requests the frontend has in flight at once.
MaxInFlight == 2

(***************************************************************************)
(* float64.  A positive value is [m, e]: the 53-bit significand            *)
(* 2^52 + m[1]*2^39 + m[2]*2^26 + m[3]*2^13 + m[4] (four limbs of 13 bits  *)
(* under the leading 1) times 2^(e-52); zero has no limbs.  Every integer   *)
(* met here is below 2^17, so float64(n) is exact and the operations take  *)
(* the integers directly.  Division and multiplication round to nearest,   *)
(* ties to even, as the hardware does.                                     *)
(***************************************************************************)
LimbBase == 8192

FZero == [m |-> <<>>, e |-> 0]

\* The significand's limbs after cutting off a tail: one more when the tail
\* is above one half (half: the tail's first bit, rest: a non-zero rest), or
\* is one half and the last bit kept is 1.
RoundLimbs(q, half, rest, e) ==
    IF ~(half /\ (rest \/ q[4] % 2 = 1)) THEN [m |-> q, e |-> e]
    ELSE LET n4 == q[4] + 1
             n3 == q[3] + n4 \div LimbBase
             n2 == q[2] + n3 \div LimbBase
             n1 == q[1] + n2 \div LimbBase
         IN  IF n1 >= LimbBase
             THEN [m |-> <<0, 0, 0, 0>>, e |-> e + 1]
             ELSE [m |-> <<n1, n2 % LimbBase, n3 % LimbBase, n4 % LimbBase>>, e |-> e]

\* float64(a) / float64(b), for a >= 0 and b > 0.
FDivInt(a, b) ==
    IF a = 0 THEN FZero
    ELSE LET up == IF a < b THEN CHOOSE k \in 1..17 : a * 2^k >= b /\ a * 2^(k-1) < b ELSE 0
             dn == IF a >= b THEN CHOOSE k \in 0..17 : b * 2^k <= a /\ a < b * 2^(k+1) ELSE 0
             x == a * 2^up
             y == b * 2^dn
             r0 == x - y
             l1 == (r0 * LimbBase) \div y
             r1 == (r0 * LimbBase) % y
             l2 == (r1 * LimbBase) \div y
             r2 == (r1 * LimbBase) % y
             l3 == (r2 * LimbBase) \div y
             r3 == (r2 * LimbBase) % y
             l4 == (r3 * LimbBase) \div y
             r4 == (r3 * LimbBase) % y
         IN  RoundLimbs(<<l1, l2, l3, l4>>, 2 * r4 >= y, (2 * r4) % y # 0, dn - up)

\* x * float64(t), for t >= 0.
FMulInt(x, t) ==
    IF x = FZero \/ t = 0 THEN FZero
    ELSE LET v4 == x.m[4] * t
             v3 == x.m[3] * t + v4 \div LimbBase
             v2 == x.m[2] * t + v3 \div LimbBase
             v1 == x.m[1] * t + v2 \div LimbBase
             top == t + v1 \div LimbBase
             k == CHOOSE k \in 0..17 : 2^k <= top /\ top < 2^(k+1)
             d == 2^k
             c1 == (top % d) * LimbBase + (v1 % LimbBase)
             c2 == (c1 % d) * LimbBase + (v2 % LimbBase)
             c3 == (c2 % d) * LimbBase + (v3 % LimbBase)
             c4 == (c3 % d) * LimbBase + (v4 % LimbBase)
             tail == c4 % d
         IN  RoundLimbs(<<c1 \div d, c2 \div d, c3 \div d, c4 \div d>>,
                        k > 0 /\ 2 * tail >= d, k > 0 /\ (2 * tail) % d # 0, x.e + k)

\* int64(x), the integer part, for x < 2^31.
FTrunc(x) ==
    IF x = FZero \/ x.e < 0 THEN 0
    ELSE LET s == 52 - x.e
             part(l, p) == IF p >= s THEN l * 2^(p - s)
                           ELSE IF s - p > 13 THEN 0
                           ELSE l \div 2^(s - p)
         IN  2^x.e + part(x.m[1], 39) + part(x.m[2], 26) + part(x.m[3], 13) + part(x.m[4], 0)

(***************************************************************************)
(* Types and the seed state.                                               *)
(***************************************************************************)
StatusPre == "PreGame"
StatusDone == "Settled"

SelHome == "home"
SelAway == "away"
SelDraw == "draw"

\* A nil *Selection, a nil error, nil results.
NoResult == "nil"
NoErr == ""
NoRet == [nil |-> TRUE]

adminKey == "letmein"

\* Game: the wagering fields and the odds fields of the struct (sport, team
\* names and start time are written once by newStore and never read).
Game(id, home, away, draw) ==
    [ID |-> id, Status |-> StatusPre, Result |-> NoResult,
     HomePool |-> home, AwayPool |-> away, DrawPool |-> draw,
     HomeOdds |-> FZero, AwayOdds |-> FZero, DrawOdds |-> FZero]

newStore ==
    [games |-> (101 :> Game(101, 100, 100, 0))
            @@ (102 :> Game(102, 150, 120, 30))
            @@ (103 :> Game(103, 150, 120, 30)),
     bets |-> << >>,
     wallets |-> (1 :> [UserID |-> 1, Balance |-> 1000]),
     nextBet |-> 1]

(***************************************************************************)
(* addOdds, listGames, getGame.                                            *)
(***************************************************************************)
\* addOdds with the home and away quotients exchanged.
addOddsSwapped(g) ==
    LET total == g.HomePool + g.AwayPool + g.DrawPool IN
    IF total <= 0
    THEN [g EXCEPT !.HomeOdds = FZero, !.AwayOdds = FZero, !.DrawOdds = FZero]
    ELSE [g EXCEPT !.HomeOdds = FDivInt(g.AwayPool, total),
                   !.AwayOdds = FDivInt(g.HomePool, total),
                   !.DrawOdds = FDivInt(g.DrawPool, total)]

addOdds(g) ==
    LET total == g.HomePool + g.AwayPool + g.DrawPool IN
    IF total <= 0
    THEN [g EXCEPT !.HomeOdds = FZero, !.AwayOdds = FZero, !.DrawOdds = FZero]
    ELSE [g EXCEPT !.HomeOdds = FDivInt(g.HomePool, total),
                   !.AwayOdds = FDivInt(g.AwayPool, total),
                   !.DrawOdds = FDivInt(g.DrawPool, total)]

\* The orders a range over a map with these keys can take.
Orders(S) ==
    {o \in [1..Cardinality(S) -> S] : \A i, j \in 1..Cardinality(S) : o[i] = o[j] => i = j}

\* Lines 115-116: the copy of every game, with its odds.
gameCopies(s) == [id \in DOMAIN s.games |-> addOdds(s.games[id])]

\* listGames losing the last game the range visits.
listGamesShort(copies, order) == [i \in 1..(Len(order) - 1) |-> copies[order[i]]]

\* Lines 113-119: the copies, appended in the order the range visits them.
listGames(copies, order) == [i \in 1..Len(order) |-> copies[order[i]]]

getGame(s, id) ==
    IF id \notin DOMAIN s.games
    THEN [game |-> NoRet, ok |-> FALSE]
    ELSE [game |-> addOdds(s.games[id]), ok |-> TRUE]

(***************************************************************************)
(* placeBet, statement by statement, and as one call.  a is the call's     *)
(* arguments [userID, gameID, sel, stake].                                 *)
(***************************************************************************)
\* pbCheck without the status check of line 152.
pbCheckNoSettled(s, a) ==
    IF a.userID \notin DOMAIN s.wallets THEN "user_not_found"
    ELSE IF a.stake <= 0 THEN "bad_stake"
    ELSE IF s.wallets[a.userID].Balance < a.stake THEN "insufficient_balance"
    ELSE IF a.gameID \notin DOMAIN s.games THEN "game_not_found"
    ELSE NoErr

\* pbCheck without the balance check of line 145.
pbCheckNoBalance(s, a) ==
    IF a.userID \notin DOMAIN s.wallets THEN "user_not_found"
    ELSE IF a.stake <= 0 THEN "bad_stake"
    ELSE IF a.gameID \notin DOMAIN s.games THEN "game_not_found"
    ELSE IF s.games[a.gameID].Status = StatusDone THEN "game_settled"
    ELSE NoErr

\* pbCheck with the stake checked before the wallet is looked up.
pbCheckStakeFirst(s, a) ==
    IF a.stake <= 0 THEN "bad_stake"
    ELSE IF a.userID \notin DOMAIN s.wallets THEN "user_not_found"
    ELSE IF s.wallets[a.userID].Balance < a.stake THEN "insufficient_balance"
    ELSE IF a.gameID \notin DOMAIN s.games THEN "game_not_found"
    ELSE IF s.games[a.gameID].Status = StatusDone THEN "game_settled"
    ELSE NoErr

\* Lines 138-154: the checks made before anything is written.
pbCheck(s, a) ==
    IF a.userID \notin DOMAIN s.wallets THEN "user_not_found"
    ELSE IF a.stake <= 0 THEN "bad_stake"
    ELSE IF s.wallets[a.userID].Balance < a.stake THEN "insufficient_balance"
    ELSE IF a.gameID \notin DOMAIN s.games THEN "game_not_found"
    ELSE IF s.games[a.gameID].Status = StatusDone THEN "game_settled"
    ELSE NoErr

\* pbDebit with the sign of the stake reversed.
pbDebitCredits(s, a) ==
    [s EXCEPT !.wallets[a.userID].Balance = @ + a.stake]

\* Line 156.
pbDebit(s, a) ==
    [s EXCEPT !.wallets[a.userID].Balance = @ - a.stake]

\* Lines 157-166: the switch; its default returns bad_selection.
pbSelErr(a) ==
    IF a.sel \in {SelHome, SelAway, SelDraw} THEN NoErr ELSE "bad_selection"

\* pbPool with the draw case adding to the away pool.
pbPoolPasted(s, a) ==
    CASE a.sel = SelHome -> [s EXCEPT !.games[a.gameID].HomePool = @ + a.stake]
      [] a.sel = SelAway -> [s EXCEPT !.games[a.gameID].AwayPool = @ + a.stake]
      [] a.sel = SelDraw -> [s EXCEPT !.games[a.gameID].AwayPool = @ + a.stake]
      [] OTHER -> s

pbPool(s, a) ==
    CASE a.sel = SelHome -> [s EXCEPT !.games[a.gameID].HomePool = @ + a.stake]
      [] a.sel = SelAway -> [s EXCEPT !.games[a.gameID].AwayPool = @ + a.stake]
      [] a.sel = SelDraw -> [s EXCEPT !.games[a.gameID].DrawPool = @ + a.stake]
      [] OTHER -> s

\* pbNewBet with the user id and the game id exchanged.
pbNewBetSwapped(s, a) ==
    [ID |-> s.nextBet, UserID |-> a.gameID, GameID |-> a.userID,
     Selection |-> a.sel, Stake |-> a.stake]

\* Lines 168-175 (the PlacedAt timestamp is left out).
pbNewBet(s, a) ==
    [ID |-> s.nextBet, UserID |-> a.userID, GameID |-> a.gameID,
     Selection |-> a.sel, Stake |-> a.stake]

\* pbStore without the s.nextBet++ of line 177.
pbStoreNoAdvance(s, b) ==
    [s EXCEPT !.bets = (b.ID :> b) @@ @]

\* Lines 176-177.
pbStore(s, b) ==
    [s EXCEPT !.bets = (b.ID :> b) @@ @, !.nextBet = @ + 1]

\* Line 179: the bet, the wallet and the game are returned as pointers into
\* the store; the model returns the keys they are stored under.
pbRet(a, b) == [bet |-> b.ID, wallet |-> a.userID, game |-> a.gameID]

placeBet(s, a) ==
    LET e == pbCheck(s, a) IN
    IF e # NoErr THEN [st |-> s, err |-> e, ret |-> NoRet]
    ELSE LET s1 == pbDebit(s, a) IN
         IF pbSelErr(a) # NoErr
         THEN [st |-> s1, err |-> pbSelErr(a), ret |-> NoRet]
         ELSE LET s2 == pbPool(s1, a)
                  b == pbNewBet(s2, a)
              IN  [st |-> pbStore(s2, b), err |-> NoErr, ret |-> pbRet(a, b)]

(***************************************************************************)
(* settle, statement by statement, and as one call.  a is the call's       *)
(* arguments [key, gameID, result].                                        *)
(***************************************************************************)
\* stCheck without the status check of line 193.
stCheckNoStatus(s, a) ==
    IF a.key # adminKey THEN "forbidden"
    ELSE IF a.gameID \notin DOMAIN s.games THEN "game_not_found"
    ELSE NoErr

\* stCheck with the key compared after the game is looked up.
stCheckKeyLast(s, a) ==
    IF a.gameID \notin DOMAIN s.games THEN "game_not_found"
    ELSE IF s.games[a.gameID].Status = StatusDone THEN "already_settled"
    ELSE IF a.key # adminKey THEN "forbidden"
    ELSE NoErr

\* Lines 186-195.
stCheck(s, a) ==
    IF a.key # adminKey THEN "forbidden"
    ELSE IF a.gameID \notin DOMAIN s.games THEN "game_not_found"
    ELSE IF s.games[a.gameID].Status = StatusDone THEN "already_settled"
    ELSE NoErr

\* stMark without line 197.
stMarkResultOnly(s, a) ==
    [s EXCEPT !.games[a.gameID].Result = a.result]

\* stMark without line 198.
stMarkStatusOnly(s, a) ==
    [s EXCEPT !.games[a.gameID].Status = StatusDone]

\* Lines 197-198.
stMark(s, a) ==
    [s EXCEPT !.games[a.gameID].Status = StatusDone,
              !.games[a.gameID].Result = a.result]

\* Line 200.
totalOf(g) == g.HomePool + g.AwayPool + g.DrawPool

\* Lines 201-209: winnerPool stays 0 when no case matches.
winnerPoolOf(g, result) ==
    CASE result = SelHome -> g.HomePool
      [] result = SelAway -> g.AwayPool
      [] result = SelDraw -> g.DrawPool
      [] OTHER -> 0

\* payoutOf paying one token more.
payoutOfCeil(stake, winnerPool, total) ==
    FTrunc(FMulInt(FDivInt(stake, winnerPool), total)) + 1

\* Lines 218-219: share := float64(stake) / float64(winnerPool);
\* payout := int64(share * float64(total)).  share and the product are
\* bound as values, so each is computed once.
payoutOf(stake, winnerPool, total) ==
    CHOOSE payout \in
        {FTrunc(prod) : prod \in
            {FMulInt(share, total) : share \in {FDivInt(stake, winnerPool)}}} : TRUE

\* stPay with a credit that depends on the balance it finds.
stPayOnBalance(s, a, id, winnerPool, total) ==
    LET b == s.bets[id] IN
    IF b.GameID # a.gameID THEN s
    ELSE IF b.Selection = a.result
         THEN [s EXCEPT !.wallets[b.UserID].Balance =
                            2 * @ + payoutOf(b.Stake, winnerPool, total)]
         ELSE s

\* Lines 214-222: the loop body for the bet stored under id.
stPay(s, a, id, winnerPool, total) ==
    LET b == s.bets[id] IN
    IF b.GameID # a.gameID THEN s
    ELSE IF b.Selection = a.result
         THEN [s EXCEPT !.wallets[b.UserID].Balance =
                            @ + payoutOf(b.Stake, winnerPool, total)]
         ELSE s

\* Lines 213-223: the loop, visiting the bets in the given order.
RECURSIVE stLoop(_, _, _, _, _)
stLoop(s, a, order, winnerPool, total) ==
    IF order = <<>> THEN s
    ELSE stLoop(stPay(s, a, Head(order), winnerPool, total), a, Tail(order),
                winnerPool, total)

\* Line 211 and 224: the game is returned as a pointer into the store.
stRet(a) == [game |-> a.gameID]

settle(s, a, order) ==
    LET e == stCheck(s, a) IN
    IF e # NoErr THEN [st |-> s, err |-> e, ret |-> NoRet]
    ELSE LET s1 == stMark(s, a)
             g == s1.games[a.gameID]
             total == totalOf(g)
             winnerPool == winnerPoolOf(g, a.result)
         IN  IF winnerPool = 0
             THEN [st |-> s1, err |-> NoErr, ret |-> stRet(a)]
             ELSE [st |-> stLoop(s1, a, order, winnerPool, total),
                   err |-> NoErr, ret |-> stRet(a)]

(***************************************************************************)
(* The sequential specification: one whole call per step.  last is the     *)
(* call just made: its arguments, its error, what it returned and the      *)
(* store it found (pre).  Respond ends the request; the next call starts   *)
(* from there.                                                             *)
(***************************************************************************)
UserIDs == {1, 2}
GameIDs == {101, 102, 104}
\* home and draw stand for the three valid selections (away is handled by
\* the same statements); "bogus" is any other string.
Selections == {SelHome, SelDraw, "bogus"}
Stakes == {0, 100, 350, 1000}
Keys == {adminKey, "wrong"}

NoCall == [op |-> "none", args |-> NoRet, err |-> NoErr, ret |-> NoRet, pre |-> NoRet,
           code |-> 0]

\* The HTTP status each handler answers with, from what the ledger returned.
\* Line 287.
listGamesStatus == 200

\* Lines 307-311: http.NotFound, else StatusOK.
getGameStatus(ok) == IF ~ok THEN 404 ELSE 200

\* settleStatus with a status per kind of error.
settleStatusByKind(err) ==
    IF err = NoErr THEN 200
    ELSE IF err = "forbidden" THEN 403
    ELSE IF err = "game_not_found" THEN 404
    ELSE 409

\* Lines 326-334: StatusBadRequest for every error, else StatusOK.
placeBetStatus(err) == IF err # NoErr THEN 400 ELSE 200

\* Lines 348-356: StatusForbidden for every error, else StatusOK.
settleStatus(err) == IF err # NoErr THEN 403 ELSE 200

(***************************************************************************)
(* The Elm frontend: frontend/src/Main.elm, and unnamed/part_000, the      *)
(* build whose BetDone carries the game of the bet response.  A Game is    *)
(* modelled by its id, the list of games by the set of their ids.          *)
(***************************************************************************)
BuildMain == "Main.elm"
BuildPart == "part_000"
Builds == {BuildMain, BuildPart}

\* type Page; Maybe.
ListPage == [tag |-> "ListPage"]
DetailPage(gid) == [tag |-> "DetailPage", gid |-> gid]
Nothing == [tag |-> "Nothing"]
Just(x) == [tag |-> "Just", val |-> x]

\* Cmd Msg: none, or one HTTP request.
CmdNone == [req |-> "none"]
fetchGames == [req |-> "fetchGames"]
fetchGame(gid) == [req |-> "fetchGame", gid |-> gid]
\* The Http.request of PlaceBet: POST /api/games/<gid>/bets with the body.
postBet(gid, body) == [req |-> "postBet", gid |-> gid, body |-> body]

initModel ==
    [page |-> ListPage, games |-> {}, selected |-> Nothing, stake |-> "10",
     selection |-> "home", userId |-> 1, error |-> Nothing]

\* The strings the stake input holds in the model, and String.toInt of them
\* with Maybe.withDefault 0.
StakeInputs == {"10", ""}
stakeInt(str) == IF str = "10" THEN 10 ELSE 0

\* The Http.Error values met, and errToString of them.
HttpErrors == {"NetworkError", "BadStatus 400"}
errToString(e) == IF e = "NetworkError" THEN "Network error" ELSE "HTTP 400"

\* A message: its constructor, Ok or Err for a Result, and its argument.
Msg(t, ok, val) == [t |-> t, ok |-> ok, val |-> val]

\* update msg model, of build b: the new model and the command.
update(b, msg, m) ==
    CASE msg.t = "GotGames" /\ msg.ok ->
            [model |-> [m EXCEPT !.games = msg.val], cmd |-> CmdNone]
      [] msg.t = "GotGames" /\ ~msg.ok ->
            [model |-> [m EXCEPT !.error = Just(errToString(msg.val))], cmd |-> CmdNone]
      [] msg.t = "GotGame" /\ msg.ok ->
            [model |-> [m EXCEPT !.selected = Just(msg.val)], cmd |-> CmdNone]
      [] msg.t = "GotGame" /\ ~msg.ok ->
            [model |-> [m EXCEPT !.error = Just(errToString(msg.val))], cmd |-> CmdNone]
      [] msg.t = "GoList" ->
            [model |-> [m EXCEPT !.page = ListPage, !.selected = Nothing],
             cmd |-> fetchGames]
      [] msg.t = "GoDetail" ->
            [model |-> [m EXCEPT !.page = DetailPage(msg.val), !.selected = Nothing],
             cmd |-> fetchGame(msg.val)]
      [] msg.t = "SetStake" ->
            [model |-> [m EXCEPT !.stake = msg.val], cmd |-> CmdNone]
      [] msg.t = "SetSelection" ->
            [model |-> [m EXCEPT !.selection = msg.val], cmd |-> CmdNone]
      [] msg.t = "PlaceBet" ->
            IF m.page.tag = "DetailPage" /\ m.selected.tag = "Just"
            THEN [model |-> m,
                  cmd |-> postBet(m.page.gid,
                                  [user_id |-> m.userId, selection |-> m.selection,
                                   stake |-> stakeInt(m.stake)])]
            ELSE [model |-> m, cmd |-> CmdNone]
      [] msg.t = "BetDone" /\ msg.ok ->
            IF b = BuildMain
            THEN IF m.page.tag = "DetailPage"
                 THEN [model |-> m, cmd |-> fetchGame(m.page.gid)]
                 ELSE [model |-> m, cmd |-> CmdNone]
            ELSE [model |-> [m EXCEPT !.selected = Just(msg.val),
                                      !.games = {IF g = msg.val THEN msg.val ELSE g : g \in @}],
                  cmd |-> CmdNone]
      [] msg.t = "BetDone" /\ ~msg.ok ->
            [model |-> [m EXCEPT !.error = Just(errToString(msg.val))], cmd |-> CmdNone]
      [] msg.t = "ClearError" ->
            [model |-> [m EXCEPT !.error = Nothing], cmd |-> CmdNone]

\* init = \_ -> ( initModel, fetchGames ).
FrontendLoaded ==
    /\ build = BuildMain
    /\ model = initModel
    /\ net = {fetchGames}

Init ==
    /\ store = newStore
    /\ last = NoCall
    /\ debits = 0
    /\ mu = 0
    /\ th = << >>
    /\ lin = << >>
    /\ FrontendLoaded

ListGames ==
    /\ last = NoCall
    /\ \E copies \in {gameCopies(store)}, order \in Orders(DOMAIN store.games) :
        last' = [op |-> "listGames", args |-> NoRet, err |-> NoErr,
                 ret |-> listGames(copies, order), pre |-> store,
                 code |-> listGamesStatus]
    /\ UNCHANGED <<elm, store, debits, mu, th, lin>>

GetGame ==
    /\ last = NoCall
    /\ \E id \in GameIDs :
        LET r == getGame(store, id) IN
        last' = [op |-> "getGame", args |-> [gameID |-> id],
                 err |-> IF r.ok THEN NoErr ELSE "not_found",
                 ret |-> r.game, pre |-> store, code |-> getGameStatus(r.ok)]
    /\ UNCHANGED <<elm, store, debits, mu, th, lin>>

PlaceBet ==
    /\ last = NoCall
    /\ \E u \in UserIDs, g \in GameIDs, sel \in Selections, stake \in Stakes :
        LET a == [userID |-> u, gameID |-> g, sel |-> sel, stake |-> stake]
            r == placeBet(store, a)
            reached == pbCheck(store, a) = NoErr
        IN  /\ reached => debits < MaxDebits
            /\ store' = r.st
            /\ debits' = IF reached THEN debits + 1 ELSE debits
            /\ last' = [op |-> "placeBet", args |-> a, err |-> r.err,
                        ret |-> r.ret, pre |-> store, code |-> placeBetStatus(r.err)]
    /\ UNCHANGED <<elm, mu, th, lin>>

Settle ==
    /\ last = NoCall
    /\ \E key \in Keys, g \in GameIDs, result \in Selections :
        LET a == [key |-> key, gameID |-> g, result |-> result] IN
        \E order \in IF stCheck(store, a) = NoErr
                     THEN Orders(DOMAIN store.bets) ELSE {<<>>} :
            LET r == settle(store, a, order) IN
            /\ store' = r.st
            /\ last' = [op |-> "settle", args |-> a, err |-> r.err,
                        ret |-> r.ret, pre |-> store, code |-> settleStatus(r.err)]
    /\ UNCHANGED <<elm, debits, mu, th, lin>>

Respond ==
    /\ last # NoCall
    /\ last' = NoCall
    /\ UNCHANGED <<elm, store, debits, mu, th, lin>>

Next == ListGames \/ GetGame \/ PlaceBet \/ Settle \/ Respond

Spec == Init /\ [][Next]_vars

(***************************************************************************)
(* Properties of the sequential specification.                             *)
(***************************************************************************)
RECURSIVE SumOf(_)
SumOf(f) ==
    IF DOMAIN f = {} THEN 0
    ELSE LET x == CHOOSE x \in DOMAIN f : TRUE
         IN  f[x] + SumOf([y \in DOMAIN f \ {x} |-> f[y]])

\* The pool of game g that selection sel names (0 for any other string).
PoolOf(g, sel) ==
    IF sel = SelHome THEN g.HomePool
    ELSE IF sel = SelAway THEN g.AwayPool
    ELSE IF sel = SelDraw THEN g.DrawPool
    ELSE 0

AllPools(g) == g.HomePool + g.AwayPool + g.DrawPool

\* The stakes of the bets of s recorded for user u.
StakesOf(s, u) ==
    SumOf([id \in {i \in DOMAIN s.bets : s.bets[i].UserID = u} |-> s.bets[id].Stake])

\* The bets of s on game gid that back sel.
Backers(s, gid, sel) ==
    {id \in DOMAIN s.bets : s.bets[id].GameID = gid /\ s.bets[id].Selection = sel}

\* C1: a PlaceBet call that returns an error leaves every wallet balance,
\* every pool, the recorded bets and the bet-id counter as they were.
\* The code debits the wallet (line 156) before the switch on the selection
\* returns bad_selection (line 165).
C1_ErrorLeavesLedgerUnchanged ==
    (last.op = "placeBet" /\ last.err # NoErr) => store = last.pre

\* C4: a successful Settle with winner_pool > 0 credits every wallet with
\* floor(stake * total / winner_pool) for each of its bets on the game that
\* backs the result.  The code computes the payout in float64 and truncates,
\* which gives one token less for some stakes.
C4_PayoutIsFloorOfExactShare ==
    (last.op = "settle" /\ last.err = NoErr
        /\ PoolOf(last.pre.games[last.args.gameID], last.args.result) > 0) =>
    LET p == last.pre
        g == p.games[last.args.gameID]
        total == AllPools(g)
        wp == PoolOf(g, last.args.result)
        won(u) == {id \in Backers(p, g.ID, last.args.result) : p.bets[id].UserID = u}
    IN  \A u \in DOMAIN p.wallets :
            store.wallets[u].Balance =
                p.wallets[u].Balance
                + SumOf([id \in won(u) |-> (p.bets[id].Stake * total) \div wp])

\* The scenario of C4: from the seed state, a 100-token home bet by user 1
\* on game 101 and then Settle(home) pays 150 and leaves 1050.
C4_SeedScenario ==
    /\ last.op = "settle" /\ last.err = NoErr
    /\ last.args.gameID = 101 /\ last.args.result = SelHome
    /\ DOMAIN last.pre.bets = {1}
    /\ last.pre.bets[1] = [ID |-> 1, UserID |-> 1, GameID |-> 101,
                           Selection |-> SelHome, Stake |-> 100]
    /\ last.pre.wallets[1].Balance = 900
    /\ store.wallets[1].Balance = 1050

\* C5: the payouts of a settlement sum to at most the game's total pool, and
\* each payout is non-negative.
C5_PayoutBound ==
    (last.op = "settle" /\ last.err = NoErr) =>
    LET p == last.pre
        g == p.games[last.args.gameID]
        total == AllPools(g)
        wp == PoolOf(g, last.args.result)
        won == IF wp = 0 THEN {} ELSE Backers(p, g.ID, last.args.result)
        pays == [id \in won |-> payoutOf(p.bets[id].Stake, wp, total)]
        credited == SumOf([u \in DOMAIN p.wallets |->
                              store.wallets[u].Balance - p.wallets[u].Balance])
    IN  /\ \A id \in won : pays[id] >= 0
        /\ credited = SumOf(pays)
        /\ credited <= total

\* A settlement that pays two bets.
C5_Witness ==
    /\ last.op = "settle" /\ last.err = NoErr
    /\ Cardinality(Backers(last.pre, last.args.gameID, last.args.result)) >= 2
    /\ store.wallets[1].Balance > last.pre.wallets[1].Balance

\* C6: every wallet balance is >= 0 in every reachable state.
C6_BalanceNonNegative ==
    \A u \in DOMAIN store.wallets : store.wallets[u].Balance >= 0

\* A bet of the whole balance has just been placed.
C6_Witness ==
    /\ last.op = "placeBet" /\ last.err = NoErr
    /\ last.args.stake = last.pre.wallets[last.args.userID].Balance
    /\ store.wallets[last.args.userID].Balance = 0

\* C7: over PlaceBet calls with no Settle in between (here: since the seed
\* state), a user's balance has gone down by the sum of the stakes of the
\* bets recorded for that user.  A call that returns bad_selection has
\* debited the wallet and recorded no bet (see C1).
C7_BalanceConservation ==
    (\A id \in DOMAIN store.games : store.games[id].Status = StatusPre) =>
    \A u \in DOMAIN store.wallets :
        newStore.wallets[u].Balance - store.wallets[u].Balance = StakesOf(store, u)

\* C8: PlaceBet returns the error of the first precondition that fails, in
\* the order user exists, stake > 0, balance >= stake, game exists, game is
\* PreGame, selection is home/away/draw.
PreconditionsHold(p, a) ==
    <<a.userID \in DOMAIN p.wallets,
      a.stake > 0,
      a.userID \in DOMAIN p.wallets /\ p.wallets[a.userID].Balance >= a.stake,
      a.gameID \in DOMAIN p.games,
      a.gameID \in DOMAIN p.games /\ p.games[a.gameID].Status = StatusPre,
      a.sel \in {SelHome, SelAway, SelDraw}>>

PreconditionErrors ==
    <<"user_not_found", "bad_stake", "insufficient_balance", "game_not_found",
      "game_settled", "bad_selection">>

FirstFailure(p, a) ==
    LET ok == PreconditionsHold(p, a)
        failing == {i \in 1..6 : ~ok[i]}
    IN  IF failing = {} THEN NoErr
        ELSE PreconditionErrors[CHOOSE i \in failing : \A j \in failing : i <= j]

C8_FirstFailureWins ==
    last.op = "placeBet" => last.err = FirstFailure(last.pre, last.args)

\* The balance check fails together with three later ones and is reported.
C8_Witness ==
    /\ last.op = "placeBet"
    /\ last.err = "insufficient_balance"
    /\ LET ok == PreconditionsHold(last.pre, last.args)
       IN  ~ok[4] /\ ~ok[5] /\ ~ok[6]

\* C9: a successful PlaceBet takes stake from that user's balance, adds
\* stake to the pool of that game the selection names, adds one bet record
\* with the call's four values, and changes nothing else.
C9_PlaceBetFrame ==
    (last.op = "placeBet" /\ last.err = NoErr) =>
    LET p == last.pre
        a == last.args
        g == p.games[a.gameID]
        add(sel) == IF a.sel = sel THEN a.stake ELSE 0
    IN  /\ store.wallets = [p.wallets EXCEPT ![a.userID].Balance = @ - a.stake]
        /\ store.games =
              [p.games EXCEPT ![a.gameID] =
                  [g EXCEPT !.HomePool = @ + add(SelHome),
                            !.AwayPool = @ + add(SelAway),
                            !.DrawPool = @ + add(SelDraw)]]
        /\ last.ret.bet \notin DOMAIN p.bets
        /\ DOMAIN store.bets = DOMAIN p.bets \cup {last.ret.bet}
        /\ \A id \in DOMAIN p.bets : store.bets[id] = p.bets[id]
        /\ LET b == store.bets[last.ret.bet]
           IN  /\ b.UserID = a.userID /\ b.GameID = a.gameID
               /\ b.Selection = a.sel /\ b.Stake = a.stake

\* The scenario of C9: balance 1000, 100 on home of game 101 with pools
\* 100/100/0 gives bet 1, balance 900 and a home pool of 200; and a second
\* bet, on draw, has been placed after a first one.
C9_Witness ==
    /\ last.op = "placeBet" /\ last.err = NoErr
    /\ last.args.sel = SelDraw
    /\ DOMAIN last.pre.bets = {1}
    /\ last.pre.bets[1].Stake = 100 /\ last.pre.bets[1].GameID = 101
    /\ last.pre.bets[1].Selection = SelHome
    /\ last.pre.wallets[1].Balance = 900
    /\ last.pre.games[101].HomePool = 200

\* C10: once a game is Settled, a Settle on it with the admin secret returns
\* already_settled, whatever the result given, and changes no wallet, no
\* pool and neither the status nor the result of the game.
C10_SettleOnceOnly ==
    (/\ last.op = "settle"
     /\ last.args.key = adminKey
     /\ last.args.gameID \in DOMAIN last.pre.games
     /\ last.pre.games[last.args.gameID].Status = StatusDone) =>
    (last.err = "already_settled" /\ store = last.pre)

\* A second Settle, with a result that a recorded bet backs and that the
\* first Settle did not give.
C10_Witness ==
    /\ last.op = "settle"
    /\ last.args.key = adminKey
    /\ last.err = "already_settled"
    /\ last.args.result # last.pre.games[last.args.gameID].Result
    /\ Backers(last.pre, last.args.gameID, last.args.result) # {}

\* C11: Settle with a credential other than the admin secret returns
\* forbidden for every game id (PreGame, Settled or unknown) and every
\* result, and leaves the whole ledger unchanged.
C11_WrongKeyForbidden ==
    (last.op = "settle" /\ last.args.key # adminKey) =>
    (last.err = "forbidden" /\ store = last.pre)

\* Settle with the wrong key on a PreGame game, with a result that a
\* recorded bet backs: the game is still PreGame and has no result.
C11_Witness ==
    /\ last.op = "settle" /\ last.args.key # adminKey
    /\ last.err = "forbidden"
    /\ Backers(last.pre, last.args.gameID, last.args.result) # {}
    /\ store.games[last.args.gameID].Status = StatusPre
    /\ store.games[last.args.gameID].Result = NoResult

\* C12: a successful Settle on a game whose pool for the given result is 0
\* leaves the game Settled with that result and every wallet unchanged.
C12_EmptyWinnerPool ==
    (/\ last.op = "settle" /\ last.err = NoErr
     /\ PoolOf(last.pre.games[last.args.gameID], last.args.result) = 0) =>
    /\ store.games[last.args.gameID].Status = StatusDone
    /\ store.games[last.args.gameID].Result = last.args.result
    /\ store.wallets = last.pre.wallets

\* Game 101 is settled as a draw, with an empty draw pool, while a bet on
\* home is recorded for it.
C12_Witness ==
    /\ last.op = "settle" /\ last.err = NoErr
    /\ last.args.gameID = 101 /\ last.args.result = SelDraw
    /\ last.pre.games[101].DrawPool = 0
    /\ Backers(last.pre, 101, SelHome) # {}
    /\ store.games[101].Status = StatusDone

\* C14: in every reachable state and for every game, the result is absent
\* if and only if the status is PreGame.
C14_ResultIffSettled ==
    \A id \in DOMAIN store.games :
        (store.games[id].Result = NoResult) <=> (store.games[id].Status = StatusPre)

\* One game has just been settled and another is still PreGame.
C14_Witness ==
    /\ last.op = "settle" /\ last.err = NoErr
    /\ store.games[last.args.gameID].Result = last.args.result
    /\ \E id \in DOMAIN store.games : store.games[id].Status = StatusPre

\* Every step that changes the store is one call, and last.pre is the store
\* that call found: the properties below compare the two.
\* The game id of store s is Settled.
IsSettled(s, id) == id \in DOMAIN s.games /\ s.games[id].Status = StatusDone

\* A Settled game is the same after the step as before it.
SettledIsFrozen ==
    last # NoCall =>
    \A id \in DOMAIN last.pre.games :
        IsSettled(last.pre, id) => store.games[id] = last.pre.games[id]

\* No pool of a PreGame game is lower after the step than before it.
PoolsNeverDecrease ==
    last # NoCall =>
    \A id \in DOMAIN last.pre.games :
        ~IsSettled(last.pre, id) =>
            /\ store.games[id].HomePool >= last.pre.games[id].HomePool
            /\ store.games[id].AwayPool >= last.pre.games[id].AwayPool
            /\ store.games[id].DrawPool >= last.pre.games[id].DrawPool

\* C15, as stated: a Settled game never changes again, every PlaceBet on it
\* returns game_settled, and the pools of a PreGame game never decrease.
\* A PlaceBet on a Settled game that fails an earlier check (unknown user,
\* stake <= 0, balance below the stake) returns that check's error.
C15_EveryBetOnSettledIsGameSettled ==
    /\ SettledIsFrozen
    /\ PoolsNeverDecrease
    /\ (last.op = "placeBet" /\ IsSettled(last.pre, last.args.gameID)) =>
           last.err = "game_settled"

\* C15, amended: a Settled game never changes again, no PlaceBet on it
\* succeeds, one that passes the user, stake and balance checks returns
\* game_settled, and the pools of a PreGame game never decrease.
C15_SettledIsTerminal ==
    /\ SettledIsFrozen
    /\ PoolsNeverDecrease
    /\ (last.op = "placeBet" /\ IsSettled(last.pre, last.args.gameID)) =>
           /\ last.err # NoErr
           /\ LET ok == PreconditionsHold(last.pre, last.args)
              IN  (ok[1] /\ ok[2] /\ ok[3]) => last.err = "game_settled"

\* A bet that the wallet covers, on a game settled earlier, is refused.
C15_Witness ==
    /\ last.op = "placeBet" /\ last.err = "game_settled"
    /\ IsSettled(last.pre, last.args.gameID)
    /\ last.args.sel = last.pre.games[last.args.gameID].Result
    /\ store.games[last.args.gameID] = last.pre.games[last.args.gameID]

\* C16: the recorded bets have the ids 1..k and the counter is k + 1; a
\* successful PlaceBet records its bet under the counter's value, above
\* every id recorded before, and advances the counter by one; a failed one
\* (bad_selection included) and every other call leave ids and counter alone.
C16_BetIdsDense ==
    /\ DOMAIN store.bets = 1..(store.nextBet - 1)
    /\ \A id \in DOMAIN store.bets : store.bets[id].ID = id
    /\ last # NoCall =>
          IF last.op = "placeBet" /\ last.err = NoErr
          THEN /\ last.ret.bet = last.pre.nextBet
               /\ \A id \in DOMAIN last.pre.bets : id < last.ret.bet
               /\ store.nextBet = last.pre.nextBet + 1
               /\ DOMAIN store.bets = DOMAIN last.pre.bets \cup {last.ret.bet}
          ELSE /\ store.nextBet = last.pre.nextBet
               /\ DOMAIN store.bets = DOMAIN last.pre.bets

\* The first successful placement comes after an attempt that failed with
\* bad_selection (the wallet shows its debit), and gets id 1.
C16_Witness ==
    /\ last.op = "placeBet" /\ last.err = NoErr
    /\ last.pre.bets = << >>
    /\ last.pre.wallets[1].Balance < newStore.wallets[1].Balance
    /\ last.ret.bet = 1
    /\ store.nextBet = 2

\* What the settlement of game id paid out.  A Settled game takes no more
\* bets and its pools are frozen, so the payouts are those of the recorded
\* bets that back its result.
PaidOut(s, id) ==
    LET g == s.games[id]
        wp == PoolOf(g, g.Result)
    IN  IF g.Status # StatusDone \/ wp = 0 THEN 0
        ELSE SumOf([b \in Backers(s, id, g.Result) |->
                       payoutOf(s.bets[b].Stake, wp, AllPools(g))])

\* The tokens of a Settled game that its settlement paid to nobody.
Undistributed(s, id) ==
    IF s.games[id].Status = StatusDone THEN AllPools(s.games[id]) - PaidOut(s, id) ELSE 0

Balances(s) == SumOf([u \in DOMAIN s.wallets |-> s.wallets[u].Balance])

OutstandingPools(s) ==
    SumOf([id \in DOMAIN s.games |->
              IF s.games[id].Status = StatusPre THEN AllPools(s.games[id]) ELSE 0])

Distributed(s) == SumOf([id \in DOMAIN s.games |-> PaidOut(s, id)])

RoundingLoss(s) == SumOf([id \in DOMAIN s.games |-> Undistributed(s, id)])

\* Initial wallet balances plus seed pools.
Granted == Balances(newStore) + OutstandingPools(newStore)

\* C17: at every instant, the wallet balances, plus the pools of the games
\* not yet settled, plus the payouts already distributed, equal the tokens
\* ever granted minus the tokens lost to payout rounding.
C17_TokenConservation ==
    Balances(store) + OutstandingPools(store) + Distributed(store)
        = Granted - RoundingLoss(store)

\* The same equation without the payouts term (a payout is in the balance of
\* the wallet it was credited to).
C17_WithoutPayoutsTerm ==
    Balances(store) + OutstandingPools(store) = Granted - RoundingLoss(store)

\* C20: ListGames and GetGame change no ledger state; ListGames never fails
\* and returns one entry per known game; GetGame returns the game when the
\* id is known and not_found when it is not.
C20_ReadsAreReadOnly ==
    /\ last.op \in {"listGames", "getGame"} => store = last.pre
    /\ last.op = "listGames" =>
          /\ last.err = NoErr
          /\ Len(last.ret) = Cardinality(DOMAIN last.pre.games)
          /\ {last.ret[i].ID : i \in 1..Len(last.ret)} = DOMAIN last.pre.games
    /\ last.op = "getGame" =>
          IF last.args.gameID \in DOMAIN last.pre.games
          THEN /\ last.err = NoErr
               /\ last.ret.ID = last.args.gameID
               /\ last.ret.Status = last.pre.games[last.args.gameID].Status
               /\ last.ret.Result = last.pre.games[last.args.gameID].Result
               /\ AllPools(last.ret) = AllPools(last.pre.games[last.args.gameID])
          ELSE last.err = "not_found" /\ last.ret = NoRet

\* ListGames on a ledger that holds a bet and a settled game: the copies
\* carry odds, the stored games still have none.
C20_Witness ==
    /\ last.op = "listGames"
    /\ store.bets # << >>
    /\ \E id \in DOMAIN store.games : store.games[id].Status = StatusDone
    /\ \E i \in 1..Len(last.ret) : last.ret[i].HomeOdds # FZero
    /\ \A id \in DOMAIN store.games : store.games[id].HomeOdds = FZero

\* GetGame with an id that no game has.
C20_NotFound ==
    last.op = "getGame" /\ last.err = "not_found"

\* C22: the handlers answer 404 when GetGame finds no game, 400 for every
\* error of PlaceBet (game_not_found included), 403 for every error of
\* Settle (forbidden, game_not_found, already_settled), and 200 on success.
C22_StatusTable ==
    /\ last.op \in {"listGames", "getGame", "placeBet", "settle"} /\ last.err = NoErr
          => last.code = 200
    /\ last.op = "getGame" /\ last.err # NoErr => last.code = 404
    /\ last.op = "placeBet" /\ last.err # NoErr => last.code = 400
    /\ last.op = "settle" /\ last.err # NoErr => last.code = 403

\* Settle with the admin key on a game id that does not exist: 403.
C22_Witness ==
    /\ last.op = "settle" /\ last.args.key = adminKey
    /\ last.err = "game_not_found"
    /\ last.code = 403

\* PlaceBet on a game id that does not exist: 400.
C22_BetOnUnknownGame ==
    last.op = "placeBet" /\ last.err = "game_not_found" /\ last.code = 400

\* C23: the outcome of a Settle does not depend on the order in which its
\* loop visits the recorded bets: every order gives the wallets and the
\* games that the call produced.
C23_OrderIndependent ==
    (last.op = "settle" /\ last.err = NoErr) =>
    \A order \in Orders(DOMAIN last.pre.bets) :
        settle(last.pre, last.args, order).st = store

\* A settlement that pays two bets of different stakes.
C23_Witness ==
    /\ last.op = "settle" /\ last.err = NoErr
    /\ \E i, j \in Backers(last.pre, last.args.gameID, last.args.result) :
           last.pre.bets[i].Stake # last.pre.bets[j].Stake
    /\ store.wallets[1].Balance > last.pre.wallets[1].Balance

\* The tokens in wallets and in the pools of the PreGame games.
Tokens(s) == Balances(s) + OutstandingPools(s)

\* C25: tokens are never created: the wallet balances plus the pool totals
\* of the PreGame games are no higher after any call than before it, and
\* never above the initial balances plus the seed pools.
C25_TokensNeverCreated ==
    /\ last # NoCall => Tokens(store) <= Tokens(last.pre)
    /\ Tokens(store) <= Granted

\* A settlement has just paid a winner, and a bet was accepted before it.
C25_Witness ==
    /\ last.op = "settle" /\ last.err = NoErr
    /\ store.wallets[1].Balance > last.pre.wallets[1].Balance
    /\ Tokens(store) < Tokens(last.pre)
    /\ Tokens(last.pre) = Granted

\* The stakes of the bets of s on game gid that back sel.
StakedOn(s, gid, sel) ==
    SumOf([b \in Backers(s, gid, sel) |-> s.bets[b].Stake])

\* C26: for every game and every selection the pool equals the seed pool
\* plus the stakes of the recorded bets with that game id and selection,
\* and every recorded bet names an existing wallet and an existing game.
C26_BetsAuditPools ==
    /\ \A id \in DOMAIN store.games, sel \in {SelHome, SelAway, SelDraw} :
          PoolOf(store.games[id], sel)
              = PoolOf(newStore.games[id], sel) + StakedOn(store, id, sel)
    /\ \A b \in DOMAIN store.bets :
          /\ store.bets[b].UserID \in DOMAIN store.wallets
          /\ store.bets[b].GameID \in DOMAIN store.games

\* Two bets are recorded on one pool and the game has been settled.
C26_Witness ==
    /\ \E id \in DOMAIN store.games, sel \in {SelHome, SelAway, SelDraw} :
          /\ Cardinality(Backers(store, id, sel)) = 2
          /\ IsSettled(store, id)
    /\ last.op = "settle" /\ last.err = NoErr

\* C27: the result of every Settled game is home, away or draw.  settle
\* stores whatever result it is given (lines 197-198) and the handler passes
\* the request's string on (lines 340-347): none of them checks it.
C27_SettledResultIsOutcome ==
    \A id \in DOMAIN store.games :
        store.games[id].Status = StatusDone =>
            store.games[id].Result \in {SelHome, SelAway, SelDraw}

(***************************************************************************)
(* The ledger with a caller that writes to the Game it was handed.         *)
(* listGames and getGame return a pointer to copy := *g (lines 115, 129):  *)
(* the struct's fields are copied, and of Result (a *Selection, line 35)   *)
(* the pointer is copied, so the copy and the stored game share the        *)
(* Selection that settle stored (line 198).  The handlers of this          *)
(* repository only serialize what they are handed; Mutate is a caller of   *)
(* the same package that assigns to it.                                    *)
(***************************************************************************)
\* The Game copies the call last returned.
Returned ==
    IF last.op = "getGame" /\ last.err = NoErr THEN {last.ret}
    ELSE IF last.op = "listGames" THEN {last.ret[i] : i \in 1..Len(last.ret)}
    ELSE {}

\* c.HomePool = v on the copy c: a field of the caller's own struct.
writeHomePool(s, c, v) == [st |-> s, copy |-> [c EXCEPT !.HomePool = v]]

\* *c.Result = v: the Selection that c.Result points to is the one the
\* stored game's Result points to.
writeThroughResult(s, c, v) ==
    [st |-> [s EXCEPT !.games[c.ID].Result = v], copy |-> [c EXCEPT !.Result = v]]

Mutate ==
    /\ \E c \in Returned :
        \E w \in {writeHomePool(store, c, 0)}
                 \cup (IF c.Result = NoResult THEN {}
                       ELSE {writeThroughResult(store, c, v) : v \in {SelHome, SelDraw}}) :
            /\ store' = w.st
            /\ last' = [op |-> "mutate", args |-> [gameID |-> c.ID], err |-> NoErr,
                        ret |-> w.copy, pre |-> store, code |-> 0]
    /\ UNCHANGED <<elm, debits, mu, th, lin>>

NextCaller == Next \/ Mutate

SpecCaller == Init /\ [][NextCaller]_vars

\* C19: the Games that ListGames and GetGame return are independent
\* copies: whatever a caller assigns to a returned Game, through its result
\* reference included, the ledger state (and so what a later ListGames or
\* GetGame returns) stays as it was.
C19_CopiesAreIndependent ==
    last.op = "mutate" => store = last.pre

\* A caller has set the HomePool of its copy to 0 and the stored game has
\* kept its pool.
C19_FieldWriteStaysLocal ==
    /\ last.op = "mutate"
    /\ last.ret.HomePool = 0
    /\ store.games[last.args.gameID].HomePool > 0
    /\ store = last.pre

(***************************************************************************)
(* addOdds on every triple of pools: the seed ledger with the pools of     *)
(* game 101 drawn from PoolValues, read by getGame and by listGames.       *)
(***************************************************************************)
PoolValues == {0, 1, 100, 150, 300}

InitOdds ==
    /\ \E h \in PoolValues, a \in PoolValues, d \in PoolValues :
          store = [newStore EXCEPT !.games[101] = Game(101, h, a, d)]
    /\ last = NoCall
    /\ debits = 0
    /\ mu = 0
    /\ th = << >>
    /\ lin = << >>
    /\ FrontendLoaded

NextOdds == GetGame \/ ListGames

SpecOdds == InitOdds /\ [][NextOdds]_vars

\* floor(x * 2^20) of the float64 x, for 0 <= x <= 1.
OddsFixed(x) == IF x = FZero THEN 0 ELSE FTrunc([m |-> x.m, e |-> x.e + 20])

\* C21: the odds of every Game that ListGames or GetGame returns are the
\* quotients pool / total of the pools in that same Game (compared here on
\* their first 20 binary places), so they sum to 1 (to within 2 / 2^20) when
\* total > 0; all three are 0 when total = 0.
C21_OddsWellFormed ==
    \A g \in Returned :
        LET total == AllPools(g) IN
        IF total = 0
        THEN g.HomeOdds = FZero /\ g.AwayOdds = FZero /\ g.DrawOdds = FZero
        ELSE /\ OddsFixed(g.HomeOdds) = (g.HomePool * 2^20) \div total
             /\ OddsFixed(g.AwayOdds) = (g.AwayPool * 2^20) \div total
             /\ OddsFixed(g.DrawOdds) = (g.DrawPool * 2^20) \div total
             /\ LET sum == OddsFixed(g.HomeOdds) + OddsFixed(g.AwayOdds)
                             + OddsFixed(g.DrawOdds)
                IN  2^20 - 2 <= sum /\ sum <= 2^20

\* A returned Game whose three odds are unequal fractions that no float64
\* holds exactly (pools 100, 150, 300 in some order).
C21_Witness ==
    \E g \in Returned :
        /\ {g.HomePool, g.AwayPool, g.DrawPool} = {100, 150, 300}
        /\ g.HomePool = 100
        /\ OddsFixed(g.HomeOdds) = (100 * 2^20) \div 550

\* A returned Game with three empty pools and three zero odds.
C21_EmptyPools ==
    \E g \in Returned : AllPools(g) = 0 /\ g.HomeOdds = FZero

(***************************************************************************)
(* The concurrent specification: NThreads request threads, one call each,  *)
(* run statement by statement.  mu is the mutex (0: free, else the thread  *)
(* that holds it).  th[t] is the thread's frame: where it is (pc), its     *)
(* call, its locals, and the error and result it returns.  lin is what     *)
(* the calls give when each runs as one whole call at the moment it takes  *)
(* the mutex: the store (lin.st) and each call's result (lin.res), from    *)
(* the store the threads started with (lin.init).                          *)
(***************************************************************************)
Threads == 1..NThreads

PB(u, g, sel, stake) ==
    [op |-> "placeBet", args |-> [userID |-> u, gameID |-> g, sel |-> sel, stake |-> stake]]
ST(key, g, result) ==
    [op |-> "settle", args |-> [key |-> key, gameID |-> g, result |-> result]]
GG(id) == [op |-> "getGame", args |-> [gameID |-> id]]
LG == [op |-> "listGames", args |-> NoRet]

ConcCalls ==
    {PB(1, 101, SelHome, 100), PB(1, 101, SelHome, 600),
     ST(adminKey, 101, SelHome), GG(101), LG}

\* The ledger when the threads start: as constructed, or after an earlier
\* request has placed a bet.
InitStores == {newStore, placeBet(newStore, PB(1, 101, SelHome, 100).args).st}

\* snap is not a variable of the code: it keeps the wallet and the game as
\* they were when placeBet stored its bet.
NoLoc == [b |-> NoRet, total |-> 0, winnerPool |-> 0, todo |-> {}, gc |-> NoRet,
          snap |-> NoRet]

Idle == [pc |-> "idle", call |-> NoRet, loc |-> NoLoc, err |-> NoErr,
         ret |-> NoRet, resp |-> NoRet, waited |-> FALSE]

\* A Lock() that never waits.
canLockAlways(m) == TRUE

\* Line 111, 123, 135, 183: Lock() returns only when the mutex is free.
canLock(m) == m = 0

\* The one order that visits the keys in ascending order.
RECURSIVE AscOrder(_)
AscOrder(S) ==
    IF S = {} THEN << >>
    ELSE LET m == CHOOSE x \in S : \A y \in S : x <= y
         IN  <<m>> \o AscOrder(S \ {m})

\* The call c of thread t, run as one whole call on lin.st.
LinApply(l, t, c) ==
    CASE c.op = "placeBet" ->
            LET r == placeBet(l.st, c.args)
            IN  [l EXCEPT !.st = r.st, !.res[t] = [err |-> r.err, ret |-> r.ret]]
      [] c.op = "settle" ->
            LET r == settle(l.st, c.args, AscOrder(DOMAIN l.st.bets))
            IN  [l EXCEPT !.st = r.st, !.res[t] = [err |-> r.err, ret |-> r.ret]]
      [] c.op = "getGame" ->
            LET r == getGame(l.st, c.args.gameID)
            IN  [l EXCEPT !.res[t] = [err |-> IF r.ok THEN NoErr ELSE "not_found",
                                      ret |-> r.game]]
      [] c.op = "listGames" ->
            [l EXCEPT !.res[t] = [err |-> NoErr, ret |-> [copies |-> gameCopies(l.st)]]]

FirstPc(op) ==
    CASE op = "placeBet" -> "pbCheck"
      [] op = "settle" -> "stCheck"
      [] op = "getGame" -> "ggRead"
      [] op = "listGames" -> "lgRead"

InitConc ==
    /\ store \in InitStores
    /\ last = NoCall
    /\ debits = 0
    /\ mu = 0
    /\ th = [t \in Threads |-> Idle]
    /\ lin = [init |-> store, st |-> store, res |-> [t \in Threads |-> NoRet]]
    /\ FrontendLoaded

\* A request arrives and its handler calls the ledger.
Invoke(t) ==
    /\ th[t].pc = "idle"
    /\ \E c \in ConcCalls : th' = [th EXCEPT ![t].pc = "lock", ![t].call = c]
    /\ UNCHANGED <<elm, store, last, debits, mu, lin>>

\* s.mu.Lock(): what it does to the mutex and to the thread.
Lock(t) ==
    /\ th[t].pc = "lock"
    /\ canLock(mu)
    /\ mu' = t
    /\ th' = [th EXCEPT ![t].pc = FirstPc(th[t].call.op),
                        ![t].waited = \E u \in Threads \ {t} : th[u].pc = "lock"]

\* s.mu.Lock(), and the whole call applied to lin.
Acquire(t) ==
    /\ Lock(t)
    /\ lin' = LinApply(lin, t, th[t].call)
    /\ UNCHANGED <<elm, store, last, debits>>

PbCheck(t) ==
    /\ th[t].pc = "pbCheck"
    /\ LET e == pbCheck(store, th[t].call.args) IN
       th' = IF e # NoErr
             THEN [th EXCEPT ![t].pc = "unlock", ![t].err = e]
             ELSE [th EXCEPT ![t].pc = "pbDebit"]
    /\ UNCHANGED <<elm, store, last, debits, mu, lin>>

PbDebit(t) ==
    /\ th[t].pc = "pbDebit"
    /\ store' = pbDebit(store, th[t].call.args)
    /\ th' = [th EXCEPT ![t].pc = "pbPool"]
    /\ UNCHANGED <<elm, last, debits, mu, lin>>

PbPool(t) ==
    /\ th[t].pc = "pbPool"
    /\ LET a == th[t].call.args IN
       IF pbSelErr(a) # NoErr
       THEN /\ th' = [th EXCEPT ![t].pc = "unlock", ![t].err = pbSelErr(a)]
            /\ store' = store
       ELSE /\ th' = [th EXCEPT ![t].pc = "pbNewBet"]
            /\ store' = pbPool(store, a)
    /\ UNCHANGED <<elm, last, debits, mu, lin>>

PbNewBet(t) ==
    /\ th[t].pc = "pbNewBet"
    /\ th' = [th EXCEPT ![t].pc = "pbStore",
                        ![t].loc.b = pbNewBet(store, th[t].call.args)]
    /\ UNCHANGED <<elm, store, last, debits, mu, lin>>

PbStore(t) ==
    /\ th[t].pc = "pbStore"
    /\ store' = pbStore(store, th[t].loc.b)
    /\ th' = [th EXCEPT ![t].pc = "unlock",
                        ![t].ret = pbRet(th[t].call.args, th[t].loc.b),
                        ![t].loc.snap =
                            [wallet |-> store'.wallets[th[t].call.args.userID],
                             game |-> store'.games[th[t].call.args.gameID]]]
    /\ UNCHANGED <<elm, last, debits, mu, lin>>

StCheck(t) ==
    /\ th[t].pc = "stCheck"
    /\ LET e == stCheck(store, th[t].call.args) IN
       th' = IF e # NoErr
             THEN [th EXCEPT ![t].pc = "unlock", ![t].err = e]
             ELSE [th EXCEPT ![t].pc = "stMark"]
    /\ UNCHANGED <<elm, store, last, debits, mu, lin>>

StMark(t) ==
    /\ th[t].pc = "stMark"
    /\ store' = stMark(store, th[t].call.args)
    /\ th' = [th EXCEPT ![t].pc = "stPools"]
    /\ UNCHANGED <<elm, last, debits, mu, lin>>

\* Lines 200-212: total and winnerPool; return at once when winnerPool is 0,
\* else start the range over s.bets.
StPools(t) ==
    /\ th[t].pc = "stPools"
    /\ LET a == th[t].call.args
           g == store.games[a.gameID]
           wp == winnerPoolOf(g, a.result)
       IN  th' = IF wp = 0
                 THEN [th EXCEPT ![t].pc = "unlock", ![t].ret = stRet(a)]
                 ELSE [th EXCEPT ![t].pc = "stLoop", ![t].loc.total = totalOf(g),
                                 ![t].loc.winnerPool = wp,
                                 ![t].loc.todo = DOMAIN store.bets]
    /\ UNCHANGED <<elm, store, last, debits, mu, lin>>

\* Lines 213-223: one iteration, on any bet not yet visited; the return
\* when none is left.
StLoop(t) ==
    /\ th[t].pc = "stLoop"
    /\ LET a == th[t].call.args
           l == th[t].loc
       IN  IF l.todo = {}
           THEN /\ th' = [th EXCEPT ![t].pc = "unlock", ![t].ret = stRet(a)]
                /\ store' = store
           ELSE \E id \in l.todo :
                /\ store' = stPay(store, a, id, l.winnerPool, l.total)
                /\ th' = [th EXCEPT ![t].loc.todo = l.todo \ {id}]
    /\ UNCHANGED <<elm, last, debits, mu, lin>>

GgRead(t) ==
    /\ th[t].pc = "ggRead"
    /\ LET r == getGame(store, th[t].call.args.gameID) IN
       th' = [th EXCEPT ![t].pc = "unlock", ![t].ret = r.game,
                        ![t].err = IF r.ok THEN NoErr ELSE "not_found"]
    /\ UNCHANGED <<elm, store, last, debits, mu, lin>>

LgRead(t) ==
    /\ th[t].pc = "lgRead"
    /\ \E copies \in {gameCopies(store)}, order \in Orders(DOMAIN store.games) :
        th' = [th EXCEPT ![t].pc = "unlock",
                         ![t].ret = [games |-> listGames(copies, order)]]
    /\ UNCHANGED <<elm, store, last, debits, mu, lin>>

\* A return that leaves the mutex locked.
ReleaseKeepsLock(t) ==
    /\ th[t].pc = "unlock"
    /\ th' = [th EXCEPT ![t].pc = "returned"]
    /\ UNCHANGED <<elm, store, last, debits, mu, lin>>

\* The deferred s.mu.Unlock(), and the return.
Release(t) ==
    /\ th[t].pc = "unlock"
    /\ mu' = 0
    /\ th' = [th EXCEPT ![t].pc = "returned"]
    /\ UNCHANGED <<elm, store, last, debits, lin>>

\* What the handler writes for frame f: the error, or the JSON of what it
\* was handed.  b and wlt of line 334 point to the stored bet and the stored
\* wallet and are read when the response is encoded.
responseOf(s, f) ==
    IF f.err # NoErr THEN [error |-> f.err]
    ELSE IF f.call.op = "placeBet"
         THEN [bet |-> s.bets[f.ret.bet], wallet |-> s.wallets[f.ret.wallet],
               game |-> f.loc.gc]
    ELSE IF f.call.op = "settle" THEN f.loc.gc
    ELSE IF f.call.op = "listGames" THEN f.ret.games
    ELSE f.ret

\* Lines 332-333 and 354-355, after placeBet or settle has returned without
\* error: gc := *g; addOdds(&gc).  g points to the stored game and the
\* mutex is no longer held: the copy reads the game as it is now.  After
\* settle the copy is all that line 356 writes.
CopyGame(t) ==
    /\ th[t].pc = "returned"
    /\ th[t].call.op \in {"placeBet", "settle"} /\ th[t].err = NoErr
    /\ LET f == [th[t] EXCEPT !.loc.gc = addOdds(store.games[th[t].ret.game])] IN
       th' = [th EXCEPT ![t] =
                 IF f.call.op = "settle"
                 THEN [f EXCEPT !.pc = "responded", !.resp = responseOf(store, f)]
                 ELSE [f EXCEPT !.pc = "write"]]
    /\ UNCHANGED <<elm, store, last, debits, mu, lin>>

\* Line 334: the bet response is encoded.  (After an error, and after
\* getGame and listGames, the handler writes values that no other thread
\* can reach: responseOf of the returned frame.)
WriteJSON(t) ==
    /\ th[t].pc = "write"
    /\ th' = [th EXCEPT ![t].pc = "responded", ![t].resp = responseOf(store, th[t])]
    /\ UNCHANGED <<elm, store, last, debits, mu, lin>>

NextConc ==
    \E t \in Threads :
        \/ Invoke(t) \/ Acquire(t) \/ Release(t)
        \/ PbCheck(t) \/ PbDebit(t) \/ PbPool(t) \/ PbNewBet(t) \/ PbStore(t)
        \/ StCheck(t) \/ StMark(t) \/ StPools(t) \/ StLoop(t)
        \/ GgRead(t) \/ LgRead(t)
        \/ CopyGame(t) \/ WriteJSON(t)

SpecConc == InitConc /\ [][NextConc]_vars

\* The steps of thread t once its request has arrived (of these, the steps
\* that take the mutex are those of Acquire).
Run(t) ==
    \/ Lock(t) \/ Release(t)
    \/ PbCheck(t) \/ PbDebit(t) \/ PbPool(t) \/ PbNewBet(t) \/ PbStore(t)
    \/ StCheck(t) \/ StMark(t) \/ StPools(t) \/ StLoop(t)
    \/ GgRead(t) \/ LgRead(t)
    \/ CopyGame(t) \/ WriteJSON(t)

\* Where every thread is: each step of Run changes it.
progress == [t \in Threads |-> <<th[t].pc, th[t].loc.todo>>]

\* Fair scheduling: a goroutine that can take a step is not held back for
\* ever.  No fairness is asked of the arrival of requests.
SpecConcFair == SpecConc /\ \A t \in Threads : WF_progress(Run(t))

(***************************************************************************)
(* Properties of the concurrent specification.                             *)
(***************************************************************************)
\* The call of thread t has returned (its response may be written or not).
HasReturned(t) == th[t].pc \in {"returned", "write", "responded"}

AllReturned == \A t \in Threads : HasReturned(t)

\* C2: N concurrent PlaceBet calls on the same PreGame game, each with
\* stake s and a valid selection, by a user whose balance covers them all
\* (any other call running with them only reads): the game's pools end
\* N*s higher, N more bets are recorded and the balance ends N*s lower.
C2_NoLostUpdate ==
    \A gid \in DOMAIN lin.init.games,
       stake \in {c.args.stake : c \in {d \in ConcCalls : d.op = "placeBet"}} :
        LET bettors == {t \in Threads : th[t].call.op = "placeBet"}
            n == Cardinality(bettors)
        IN  (/\ AllReturned
             /\ n >= 1
             /\ \A t \in Threads \ bettors : th[t].call.op \in {"getGame", "listGames"}
             /\ \A t \in bettors :
                    /\ th[t].call.args.userID = 1
                    /\ th[t].call.args.gameID = gid
                    /\ th[t].call.args.stake = stake
                    /\ th[t].call.args.sel \in {SelHome, SelAway, SelDraw}
             /\ n * stake <= lin.init.wallets[1].Balance) =>
            /\ AllPools(store.games[gid]) = AllPools(lin.init.games[gid]) + n * stake
            /\ Cardinality(DOMAIN store.bets) = Cardinality(DOMAIN lin.init.bets) + n
            /\ store.wallets[1].Balance = lin.init.wallets[1].Balance - n * stake
            /\ \A t \in bettors : th[t].err = NoErr

\* Every thread has placed a bet on game 101, and one of them took the
\* mutex while another was waiting for it.
C2_Witness ==
    /\ AllReturned
    /\ \A t \in Threads :
           /\ th[t].call.op = "placeBet"
           /\ th[t].call.args.stake = 100
           /\ th[t].err = NoErr
    /\ \E t \in Threads : th[t].waited

\* C3: the calls are linearizable.  Each call takes effect as one whole
\* call at the moment it takes the mutex, which lies between its invocation
\* and its return: whenever the mutex is free the store is the one those
\* whole calls give in that order, and every call returns what its whole
\* call returned (for listGames: the same copies, in some order).
C3_Linearizable ==
    /\ mu = 0 => store = lin.st
    /\ \A t \in Threads :
           HasReturned(t) =>
               /\ th[t].err = lin.res[t].err
               /\ IF th[t].call.op = "listGames"
                  THEN \E order \in Orders(DOMAIN lin.res[t].ret.copies) :
                           th[t].ret.games = listGames(lin.res[t].ret.copies, order)
                  ELSE th[t].ret = lin.res[t].ret

\* A Settle took the mutex while a PlaceBet was waiting for it, and the
\* PlaceBet found the game settled.
C3_Witness ==
    /\ AllReturned
    /\ \E t, u \in Threads :
           /\ th[t].call.op = "settle" /\ th[t].waited /\ th[t].err = NoErr
           /\ th[u].call.op = "placeBet" /\ th[u].err = "game_settled"

\* The bets that the Settle of thread u has still to pay: every bet on its
\* game that backs its result, from the moment the game is marked Settled
\* until the loop has visited the bet.
PendingPayouts(u) ==
    LET a == th[u].call.args
        backs(S) == {id \in S : /\ store.bets[id].GameID = a.gameID
                                /\ store.bets[id].Selection = a.result}
    IN  IF th[u].pc = "stPools"
        THEN IF winnerPoolOf(store.games[a.gameID], a.result) = 0 THEN {}
             ELSE backs(DOMAIN store.bets)
        ELSE IF th[u].pc = "stLoop" THEN backs(th[u].loc.todo)
        ELSE {}

\* Thread t is about to read the ledger inside GetGame, ListGames or
\* PlaceBet.
Observes(t) == th[t].pc \in {"ggRead", "lgRead", "pbCheck"}

\* C13: no GetGame, ListGames or PlaceBet reads the ledger while a Settle
\* has marked its game Settled and has a payout still to make; the ledger it
\* reads is the one that whole calls, run one at a time, have produced:
\* every settlement in it is either complete or not begun.
C13_NoIntermediateSettlement ==
    \A t \in Threads :
        Observes(t) =>
            /\ \A u \in Threads \ {t} : PendingPayouts(u) = {}
            /\ IF th[t].call.op = "placeBet"
               THEN placeBet(store, th[t].call.args).st = lin.st
               ELSE store = lin.st

\* A GetGame or ListGames that was waiting for the mutex when the Settle
\* took it reads game 101 as Settled, with the settlement's payout in the
\* wallet.
C13_Witness ==
    \E t, u \in Threads :
        /\ th[t].pc \in {"ggRead", "lgRead"}
        /\ HasReturned(u) /\ th[u].call.op = "settle" /\ th[u].waited
        /\ store.games[101].Status = StatusDone
        /\ Backers(store, 101, store.games[101].Result) # {}
        /\ store.wallets[1].Balance > lin.init.wallets[1].Balance

\* C18: the wallet and the game in the response to a successful PlaceBet
\* are those of the moment the bet was stored, whatever other calls run
\* between placeBet's return and the writing of the response.
C18_ResponseIsSnapshot ==
    \A t \in Threads :
        (th[t].pc = "responded" /\ th[t].call.op = "placeBet" /\ th[t].err = NoErr) =>
            /\ th[t].resp.wallet = th[t].loc.snap.wallet
            /\ th[t].resp.game = addOdds(th[t].loc.snap.game)

\* A bet response written before any other call has touched the wallet or
\* the game is the snapshot.
C18_UndisturbedResponse ==
    \E t \in Threads :
        /\ th[t].pc = "responded" /\ th[t].call.op = "placeBet" /\ th[t].err = NoErr
        /\ th[t].resp.wallet = th[t].loc.snap.wallet
        /\ th[t].resp.game = addOdds(th[t].loc.snap.game)

\* C24: under fair scheduling every invoked operation returns, and when it
\* has returned, with or without an error, it does not hold the mutex;
\* while no call is inside the ledger the mutex is free.
C24_EveryCallReturns ==
    /\ \A t \in Threads : (th[t].pc = "lock") ~> HasReturned(t)
    /\ [](\A t \in Threads : HasReturned(t) => mu # t)
    /\ []((\A t \in Threads : th[t].pc \in {"idle", "lock"} \/ HasReturned(t)) => mu = 0)

\* Every thread has returned, one of them with an error, after one of them
\* took the mutex while another was waiting for it; the mutex is free.
C24_Witness ==
    /\ AllReturned
    /\ mu = 0
    /\ \E t \in Threads : th[t].err # NoErr
    /\ \E t \in Threads : th[t].waited

(***************************************************************************)
(* The frontend as a state machine.  The user sends the messages of the    *)
(* controls the view shows; every request in flight is answered once, in   *)
(* any order (Http sends the requests concurrently).  The ledger stays at  *)
(* its seed state: a response carries the id of the game it was asked for. *)
(***************************************************************************)
InitElm ==
    /\ store = newStore
    /\ last = NoCall
    /\ debits = 0
    /\ mu = 0
    /\ th = << >>
    /\ lin = << >>
    /\ build \in Builds
    /\ model = initModel
    /\ net = {fetchGames}

\* The runtime applies update to msg and sends its command; pending are the
\* requests that stay in flight.
Deliver(msg, pending) ==
    LET r == update(build, msg, model) IN
    /\ r.cmd # CmdNone => r.cmd \notin pending /\ Cardinality(pending) < MaxInFlight
    /\ model' = r.model
    /\ net' = IF r.cmd = CmdNone THEN pending ELSE pending \cup {r.cmd}
    /\ UNCHANGED <<store, last, debits, mu, th, lin, build>>

\* view: the refresh button of the list, the back button of the detail.
MsgGoList ==
    /\ model.page.tag \in {"ListPage", "DetailPage"}
    /\ Deliver(Msg("GoList", TRUE, 0), net)

\* viewList: the open button of a listed game.
MsgGoDetail ==
    /\ model.page = ListPage
    /\ \E gid \in model.games : Deliver(Msg("GoDetail", TRUE, gid), net)

\* viewDetail with a selected game: the stake input.
MsgSetStake ==
    /\ model.page.tag = "DetailPage" /\ model.selected.tag = "Just"
    /\ \E str \in StakeInputs : Deliver(Msg("SetStake", TRUE, str), net)

\* viewDetail with a selected game: the pick.
MsgSetSelection ==
    /\ model.page.tag = "DetailPage" /\ model.selected.tag = "Just"
    /\ \E sel \in {SelHome, SelAway, SelDraw} :
          Deliver(Msg("SetSelection", TRUE, sel), net)

\* viewDetail with a selected game: the place-bet button.
MsgPlaceBet ==
    /\ model.page.tag = "DetailPage" /\ model.selected.tag = "Just"
    /\ Deliver(Msg("PlaceBet", TRUE, 0), net)

\* view: the ok button of the error card.
MsgClearError ==
    /\ model.error.tag = "Just"
    /\ Deliver(Msg("ClearError", TRUE, 0), net)

\* The answer to fetchGames: the games of the ledger, or an error.
MsgGotGames ==
    /\ fetchGames \in net
    /\ \/ Deliver(Msg("GotGames", TRUE, DOMAIN store.games), net \ {fetchGames})
       \/ \E e \in HttpErrors : Deliver(Msg("GotGames", FALSE, e), net \ {fetchGames})

\* The answer to a fetchGame: the game of that id, or an error.
MsgGotGame ==
    \E q \in {r \in net : r.req = "fetchGame"} :
        \/ /\ getGame(store, q.gid).ok
           /\ Deliver(Msg("GotGame", TRUE, getGame(store, q.gid).game.ID), net \ {q})
        \/ \E e \in HttpErrors : Deliver(Msg("GotGame", FALSE, e), net \ {q})

\* The answer to the bet request.  Main.elm expects whatever and maps every
\* outcome to BetDone (Ok ()); part_000 decodes the game of the response,
\* which is the game of the request's path when placeBet accepts the bet.
MsgBetDone ==
    \E q \in {r \in net : r.req = "postBet"} :
        LET a == [userID |-> q.body.user_id, gameID |-> q.gid,
                  sel |-> q.body.selection, stake |-> q.body.stake]
        IN  IF build = BuildMain
            THEN Deliver(Msg("BetDone", TRUE, 0), net \ {q})
            ELSE \/ /\ placeBet(store, a).err = NoErr
                    /\ Deliver(Msg("BetDone", TRUE, q.gid), net \ {q})
                 \/ \E e \in HttpErrors : Deliver(Msg("BetDone", FALSE, e), net \ {q})

NextElm ==
    \/ MsgGoList \/ MsgGoDetail \/ MsgSetStake \/ MsgSetSelection
    \/ MsgPlaceBet \/ MsgClearError
    \/ MsgGotGames \/ MsgGotGame \/ MsgBetDone

SpecElm == InitElm /\ [][NextElm]_vars

\* C28: in every reachable model of the frontend, when page is
\* DetailPage gid and selected is Just g then g.id = gid, and when page is
\* ListPage then selected is Nothing (so that PlaceBet posts the bet to the
\* game on display).  GotGame (Ok g) stores g whatever the page is, so the
\* answer to a request sent before a navigation lands on the new page.
C28_SelectedMatchesPage ==
    /\ (model.page.tag = "DetailPage" /\ model.selected.tag = "Just") =>
          model.selected.val = model.page.gid
    /\ model.page = ListPage => model.selected = Nothing
====
